---- MODULE Spec2Model ----
(***************************************************************************)
(* The Blackjack round engine of card_games                                *)
(* (card_games/src/game/blackjack/blackjack.rs and the types, rules, bank, *)
(* hand and deck modules it uses).                                         *)
(*                                                                         *)
(* One state of the model is the Blackjack struct between two public       *)
(* calls.  Every public operation (start_round, apply, request_new_round)  *)
(* is one action that runs the whole call, automatic transitions included. *)
(*                                                                         *)
(* A shuffled shoe is a Vec<Card> in an order nobody has observed yet: it  *)
(* is kept as the set of its cards and every draw takes any one of them.   *)
(* A shoe built from an explicit list keeps its order and is drawn with    *)
(* Vec::pop, from the end of the list.                                     *)
(***************************************************************************)
EXTENDS Integers, Sequences, FiniteSets, TLC

VARIABLES
    state,      \* Blackjack.state : BlackjackState
    shoe,       \* Blackjack.shoe : Shoe
    table,      \* Blackjack.table : Table {player_hands, dealer_hand}
    bank,       \* Blackjack.bank : Bank.balance
    result,     \* Blackjack.result : GameResult
    rounds,     \* number of rounds started so far
    panicked,   \* TRUE once a call died in Shoe::draw ("Deck exhausted")
    scored      \* a hand put to rules::hand_score and is_bust, with their answers

vars == <<state, shoe, table, bank, result, rounds, panicked, scored>>

(***************************************************************************)
(* Bounds of the model.                                                    *)
(***************************************************************************)
\* suits in the deck (a standard deck has 4)
NumSuits == 3
\* rounds started in one behaviour
MaxRounds == 2
\* the card values in the deck (a standard deck has all of 1..13)
DeckValues == {1, 6, 13}
\* the balances a game starts with, Blackjack::new()'s 1000 among them
InitBanks == {5, 25, 1000}
\* shoes in a known order (Shoe::rigged), each an order a shuffle can leave;
\* the lists are the Vec as stored, so the last card is the first one drawn
RiggedShoes ==
    {<<[suit |-> 3, value |-> 1], [suit |-> 3, value |-> 6],
       [suit |-> 3, value |-> 13], [suit |-> 2, value |-> 1],
       [suit |-> 2, value |-> 6], [suit |-> 1, value |-> 1],
       [suit |-> 1, value |-> 6], [suit |-> 2, value |-> 13],
       [suit |-> 1, value |-> 13]>>,
     <<[suit |-> 3, value |-> 1], [suit |-> 3, value |-> 13],
       [suit |-> 2, value |-> 1], [suit |-> 2, value |-> 13],
       [suit |-> 1, value |-> 1], [suit |-> 3, value |-> 6],
       [suit |-> 1, value |-> 13], [suit |-> 2, value |-> 6],
       [suit |-> 1, value |-> 6]>>}

(***************************************************************************)
(* cards/card.rs                                                           *)
(***************************************************************************)
JOKER == 0
ACE == 1
TEN == 10
JACK == 11
QUEEN == 12
KING == 13

Card(s, v) == [suit |-> s, value |-> v]

Suits == 1..NumSuits

AllCards == {Card(s, v) : s \in Suits, v \in DeckValues}

\* one order Deck::shuffle can leave the 52 cards of standard52 in (the Vec as
\* stored: the last card is the first one drawn)
FullShoe ==
    <<Card(3, 4), Card(4, 3), Card(3, 3), Card(2, 3), Card(1, 3), Card(4, 1),
      Card(3, 1), Card(4, 2), Card(3, 2), Card(2, 2), Card(1, 2), Card(2, 4),
      Card(1, 4), Card(2, 1), Card(1, 1), Card(4, 5), Card(4, 9), Card(2, 5),
      Card(3, 13), Card(2, 8), Card(1, 7), Card(3, 9), Card(3, 8), Card(4, 8),
      Card(3, 12), Card(1, 10), Card(2, 13), Card(3, 11), Card(1, 13), Card(1, 5),
      Card(2, 10), Card(2, 12), Card(1, 12), Card(3, 5), Card(4, 11), Card(1, 6),
      Card(2, 9), Card(2, 6), Card(4, 10), Card(1, 9), Card(3, 10), Card(1, 11),
      Card(2, 11), Card(3, 7), Card(1, 8), Card(3, 6), Card(4, 6), Card(4, 13),
      Card(2, 7), Card(4, 12), Card(4, 4), Card(4, 7)>>

(***************************************************************************)
(* game/blackjack/rules.rs                                                 *)
(***************************************************************************)
card_value(card) ==
    IF card.value = ACE THEN 11
    ELSE IF card.value \in {TEN, JACK, QUEEN, KING} THEN 10
    ELSE IF card.value = JOKER THEN 0
    ELSE card.value

RECURSIVE SumValues(_)
SumValues(hand) ==
    IF hand = <<>> THEN 0
    ELSE card_value(Head(hand)) + SumValues(Tail(hand))

RECURSIVE CountAces(_)
CountAces(hand) ==
    IF hand = <<>> THEN 0
    ELSE (IF Head(hand).value = ACE THEN 1 ELSE 0) + CountAces(Tail(hand))

\* an adjustment that counts at most one Ace down: `if` in place of `while`
AdjustAces_once(score, ace_count) ==
    IF score > 21 /\ ace_count > 0 THEN score - 10 ELSE score

\* while score > 21 && ace_count > 0 { score -= 10; ace_count -= 1; }
RECURSIVE AdjustAces(_, _)
AdjustAces(score, ace_count) ==
    IF score > 21 /\ ace_count > 0
    THEN AdjustAces(score - 10, ace_count - 1)
    ELSE score

hand_score(hand) == AdjustAces(SumValues(hand), CountAces(hand))

\* a dealer who also draws on 17
dealer_should_hit_on_17(hand) == hand_score(hand) <= 17

dealer_should_hit(hand) == hand_score(hand) < 17

is_bust(hand) == hand_score(hand) > 21

\* what the rules answer for one hand
Score(hand) ==
    [hand |-> hand, score |-> hand_score(hand), is_bust |-> is_bust(hand)]

is_blackjack(hand) == Len(hand) = 2 /\ hand_score(hand) = 21

\* rules::can_double(&hand.hand) and rules::can_split(&hand.hand, context), as
\* the design states them: "exactly 2 cards", and "exactly 2 cards of equal
\* rank and context == NoPreviousSplit".
can_double(hand) == Len(hand) = 2

can_split(hand, context) ==
    /\ Len(hand) = 2
    /\ hand[1].value = hand[2].value
    /\ context = "NoPreviousSplit"

(***************************************************************************)
(* game/blackjack/types.rs                                                 *)
(***************************************************************************)
Dealing == [tag |-> "Dealing", hand_index |-> 0]
PlayerTurn(i) == [tag |-> "PlayerTurn", hand_index |-> i]
DealerTurn == [tag |-> "DealerTurn", hand_index |-> 0]
RoundOver == [tag |-> "RoundOver", hand_index |-> 0]

PlayerActions == {"Hit", "Stay", "Double", "Split"}

\* PlayerHand::new(bet_amount)
NewPlayerHand(bet_amount) ==
    [hand |-> <<>>, bet |-> bet_amount, is_complete |-> FALSE]

\* GameResult::determine(player, dealer)
determine(player, dealer) ==
    IF player > 21 THEN "DealerWin"
    ELSE IF dealer > 21 THEN "PlayerWin"
    ELSE IF player > dealer THEN "PlayerWin"
    ELSE IF dealer > player THEN "DealerWin"
    ELSE "Push"

\* Shoe::new_shuffled(): the standard deck in an unobserved order
new_shuffled == [deck |-> <<>>, shuffled |-> AllCards]

\* Shoe::rigged(draw_order): Deck::from_cards keeps the list as given
rigged(draw_order) == [deck |-> draw_order, shuffled |-> {}]

\* Shoe::remaining()
remaining(s) == Len(s.deck) + Cardinality(s.shuffled)

\* Shoe::draw() on a shoe that is not empty: the possible <<card, shoe left>>.
\* Deck::draw is Vec::pop: it takes the last card of the list.  In a shuffled
\* shoe the next card can be of any value left in it; the engine reads only
\* card.value(), so renaming the suits of one value changes nothing it does,
\* and of the copies of a value the draw takes the one of the least suit.
DrawOutcomes(s) ==
    IF s.shuffled # {}
    THEN {<<c, [s EXCEPT !.shuffled = @ \ {c}]>> :
            c \in {x \in s.shuffled :
                     \A y \in s.shuffled : y.value = x.value => x.suit <= y.suit}}
    ELSE {<<s.deck[Len(s.deck)],
            [s EXCEPT !.deck = SubSeq(@, 1, Len(@) - 1)]>>}

(***************************************************************************)
(* bank/bank.rs                                                            *)
(***************************************************************************)
\* a withdrawal that takes what there is when the balance is short
withdraw_drains(balance, amount) ==
    IF balance >= amount
    THEN [ok |-> TRUE, balance |-> balance - amount]
    ELSE [ok |-> FALSE, balance |-> 0]

\* a withdrawal that checks the balance but takes nothing
withdraw_checks_only(balance, amount) ==
    [ok |-> balance >= amount, balance |-> balance]

\* Bank::withdraw(amount): [ok, balance]
withdraw(balance, amount) ==
    IF balance >= amount
    THEN [ok |-> TRUE, balance |-> balance - amount]
    ELSE [ok |-> FALSE, balance |-> balance]

\* Bank::deposit(amount)
deposit(balance, amount) == balance + amount

(***************************************************************************)
(* game/blackjack/blackjack.rs                                             *)
(*                                                                         *)
(* The private methods work on g, the Blackjack struct during a call:      *)
(* its five fields, the events vector the call is filling, and panicked,   *)
(* set when Shoe::draw found the shoe empty.  A method that draws returns  *)
(* the set of structs the draw can leave; a panicked struct passes through *)
(* every later step unchanged.                                             *)
(***************************************************************************)
DefaultBet == 10
ShuffleThreshold == 15
InitialBank == 1000

ActionApplied(a) == [type |-> "ActionApplied", action |-> a]
ActionIgnored(a, s) == [type |-> "ActionIgnored", action |-> a, state |-> s]
StateChanged(f, t) == [type |-> "StateChanged", from |-> f, to |-> t]
RoundResolved(r) == [type |-> "RoundResolved", result |-> r]
RoundStarted == [type |-> "RoundStarted"]
RoundStartIgnored(s) == [type |-> "RoundStartIgnored", state |-> s]

\* self at the entry of a public call
Self ==
    [state |-> state, shoe |-> shoe, table |-> table, bank |-> bank,
     result |-> result, events |-> <<>>, panicked |-> FALSE]

\* hand.hand.add(self.shoe.draw()) on player hand idx
DrawToPlayer(g, idx) ==
    IF g.panicked THEN {g}
    ELSE IF remaining(g.shoe) = 0 THEN {[g EXCEPT !.panicked = TRUE]}
    ELSE {[g EXCEPT !.shoe = d[2],
                    !.table.player_hands[idx + 1].hand = Append(@, d[1])]
          : d \in DrawOutcomes(g.shoe)}

\* a dealer's draw that looks at the top card and leaves it in the shoe
DrawToDealer_peeks(g) ==
    IF g.panicked THEN {g}
    ELSE IF remaining(g.shoe) = 0 THEN {[g EXCEPT !.panicked = TRUE]}
    ELSE {[g EXCEPT !.table.dealer_hand = Append(@, d[1])]
          : d \in DrawOutcomes(g.shoe)}

\* self.table.dealer_hand.add(self.shoe.draw())
DrawToDealer(g) ==
    IF g.panicked THEN {g}
    ELSE IF remaining(g.shoe) = 0 THEN {[g EXCEPT !.panicked = TRUE]}
    ELSE {[g EXCEPT !.shoe = d[2], !.table.dealer_hand = Append(@, d[1])]
          : d \in DrawOutcomes(g.shoe)}

\* a transition that signals a change also when the phase stays the same
transition_to_always_signals(g, next) ==
    IF g.panicked THEN g
    ELSE [g EXCEPT !.state = next,
                   !.events = Append(@, StateChanged(g.state, next))]

transition_to(g, next) ==
    IF g.panicked THEN g
    ELSE [g EXCEPT !.state = next,
                   !.events = IF g.state # next
                              THEN Append(@, StateChanged(g.state, next))
                              ELSE @]

set_result(g, r) ==
    IF g.panicked THEN g
    ELSE [g EXCEPT !.result = r,
                   !.events = IF r # "Pending"
                              THEN Append(@, RoundResolved(r))
                              ELSE @]

\* a payout that forgets to return the stake
payout_without_stake(bet) == (bet * 3) \div 2

\* a natural push that keeps the bet
resolve_blackjack_push_keeps_bet(g) ==
    IF g.panicked THEN g
    ELSE
    LET player == g.table.player_hands[1]
        player_blackjack == is_blackjack(player.hand)
        dealer_blackjack == is_blackjack(g.table.dealer_hand)
    IN  IF player_blackjack /\ dealer_blackjack
        THEN transition_to(set_result(g, "Push"), RoundOver)
        ELSE IF player_blackjack
        THEN transition_to(
                 set_result([g EXCEPT !.bank = deposit(@, player.bet
                                           + ((player.bet * 3) \div 2))],
                            "PlayerWin"),
                 RoundOver)
        ELSE IF dealer_blackjack
        THEN transition_to(set_result(g, "DealerWin"), RoundOver)
        ELSE transition_to(g, PlayerTurn(0))

\* a deal that looks at the player's natural only
resolve_blackjack_player_only(g) ==
    IF g.panicked THEN g
    ELSE
    LET player == g.table.player_hands[1]
        player_blackjack == is_blackjack(player.hand)
    IN  IF player_blackjack
        THEN transition_to(
                 set_result([g EXCEPT !.bank = deposit(@, player.bet
                                           + ((player.bet * 3) \div 2))],
                            "PlayerWin"),
                 RoundOver)
        ELSE transition_to(g, PlayerTurn(0))

\* let payout = player.bet.amount + (player.bet.amount * 3 / 2)
payout(bet) == bet + ((bet * 3) \div 2)

resolve_blackjack_or_continue(g) ==
    IF g.panicked THEN g
    ELSE
    LET player == g.table.player_hands[1]
        player_blackjack == is_blackjack(player.hand)
        dealer_blackjack == is_blackjack(g.table.dealer_hand)
    IN  IF player_blackjack /\ dealer_blackjack
        THEN transition_to(
                 set_result([g EXCEPT !.bank = deposit(@, player.bet)], "Push"),
                 RoundOver)
        ELSE IF player_blackjack
        THEN transition_to(
                 set_result([g EXCEPT !.bank = deposit(@, payout(player.bet))],
                            "PlayerWin"),
                 RoundOver)
        ELSE IF dealer_blackjack
        THEN transition_to(set_result(g, "DealerWin"), RoundOver)
        ELSE transition_to(g, PlayerTurn(0))

deal_initial_cards(g) ==
    LET p1 == DrawToPlayer(g, 0)
        p2 == UNION {DrawToPlayer(x, 0) : x \in p1}
        d1 == UNION {DrawToDealer(x) : x \in p2}
        d2 == UNION {DrawToDealer(x) : x \in d1}
    IN  {resolve_blackjack_or_continue(x) : x \in d2}

current_hand_idx(g) ==
    IF g.state.tag = "PlayerTurn" THEN g.state.hand_index ELSE 0

\* a threshold that also replaces a shoe of exactly 15 cards
needs_shuffle_inclusive(g) == remaining(g.shoe) <= ShuffleThreshold

needs_shuffle(g) == remaining(g.shoe) < ShuffleThreshold

shuffle_shoe(g) == [g EXCEPT !.shoe = new_shuffled]

advance_to_dealer(g) == transition_to(g, DealerTurn)

\* an advance that forgets the hands still to play
advance_always_to_dealer(g, idx) == advance_to_dealer(g)

\* the first incomplete hand at an index above idx, else the dealer
advance_player_turn_or_dealer(g, idx) ==
    LET n == Len(g.table.player_hands)
        open == {i \in (idx + 1)..(n - 1) :
                     ~g.table.player_hands[i + 1].is_complete}
    IN  IF open # {}
        THEN transition_to(g, PlayerTurn(CHOOSE i \in open :
                                             \A j \in open : i <= j))
        ELSE advance_to_dealer(g)

\* a context that never remembers an earlier split
split_context_forgets(g) == "NoPreviousSplit"

split_context(g) ==
    IF Len(g.table.player_hands) > 1 THEN "AlreadySplit" ELSE "NoPreviousSplit"

\* the two drawn cards handed out the other way round
DrawTwo_swapped(s) ==
    IF remaining(s) = 0 THEN {[panicked |-> TRUE]}
    ELSE UNION {
        IF remaining(d1[2]) = 0 THEN {[panicked |-> TRUE]}
        ELSE {[panicked |-> FALSE, new1 |-> d2[1], new2 |-> d1[1],
               shoe |-> d2[2]] : d2 \in DrawOutcomes(d1[2])}
        : d1 \in DrawOutcomes(s)}

\* new1 = self.shoe.draw(); new2 = self.shoe.draw()
DrawTwo(s) ==
    IF remaining(s) = 0 THEN {[panicked |-> TRUE]}
    ELSE UNION {
        IF remaining(d1[2]) = 0 THEN {[panicked |-> TRUE]}
        ELSE {[panicked |-> FALSE, new1 |-> d1[1], new2 |-> d2[1],
               shoe |-> d2[2]] : d2 \in DrawOutcomes(d1[2])}
        : d1 \in DrawOutcomes(s)}

\* an advance that forgets to mark the hand complete
CompleteAndAdvance_unmarked(g, idx) ==
    IF g.panicked THEN g
    ELSE advance_player_turn_or_dealer(g, idx)

\* hand.is_complete = true; self.advance_player_turn_or_dealer(idx, events)
CompleteAndAdvance(g, idx) ==
    IF g.panicked THEN g
    ELSE advance_player_turn_or_dealer(
             [g EXCEPT !.table.player_hands[idx + 1].is_complete = TRUE], idx)

\* a hit that also closes the hand when it reaches 21
HitHand_stands_on_21(g, idx) ==
    {[handled |-> TRUE,
      g |-> IF ~x.panicked /\ hand_score(x.table.player_hands[idx + 1].hand) >= 21
            THEN CompleteAndAdvance(x, idx)
            ELSE x]
     : x \in DrawToPlayer(g, idx)}

\* a hit that marks a busted hand complete but leaves the turn on it
HitHand_bust_stays(g, idx) ==
    {[handled |-> TRUE,
      g |-> IF ~x.panicked /\ is_bust(x.table.player_hands[idx + 1].hand)
            THEN [x EXCEPT !.table.player_hands[idx + 1].is_complete = TRUE]
            ELSE x]
     : x \in DrawToPlayer(g, idx)}

\* a hit that never looks whether the hand went bust
HitHand_unchecked(g, idx) ==
    {[handled |-> TRUE, g |-> x] : x \in DrawToPlayer(g, idx)}

HitHand(g, idx) ==
    {[handled |-> TRUE,
      g |-> IF ~x.panicked /\ is_bust(x.table.player_hands[idx + 1].hand)
            THEN CompleteAndAdvance(x, idx)
            ELSE x]
     : x \in DrawToPlayer(g, idx)}

StayHand(g, idx) ==
    {[handled |-> TRUE, g |-> CompleteAndAdvance(g, idx)]}

\* a double that completes the hand only when it busts, as Hit does
DoubleHand_as_hit(g, idx) ==
    LET hand == g.table.player_hands[idx + 1]
        w == withdraw(g.bank, hand.bet)
    IN  IF ~can_double(hand.hand) THEN {[handled |-> FALSE, g |-> g]}
        ELSE IF ~w.ok
        THEN {[handled |-> FALSE, g |-> [g EXCEPT !.bank = w.balance]]}
        ELSE {[handled |-> TRUE,
               g |-> IF ~x.panicked
                        /\ is_bust(x.table.player_hands[idx + 1].hand)
                     THEN CompleteAndAdvance(x, idx)
                     ELSE x]
              : x \in DrawToPlayer(
                    [g EXCEPT !.bank = w.balance,
                              !.table.player_hands[idx + 1].bet = @ * 2],
                    idx)}

DoubleHand(g, idx) ==
    LET hand == g.table.player_hands[idx + 1]
        w == withdraw(g.bank, hand.bet)
    IN  IF ~can_double(hand.hand) THEN {[handled |-> FALSE, g |-> g]}
        ELSE IF ~w.ok
        THEN {[handled |-> FALSE, g |-> [g EXCEPT !.bank = w.balance]]}
        ELSE {[handled |-> TRUE, g |-> CompleteAndAdvance(x, idx)]
              : x \in DrawToPlayer(
                    [g EXCEPT !.bank = w.balance,
                              !.table.player_hands[idx + 1].bet = @ * 2],
                    idx)}

\* a split that evaluates the naturals again on the hands it has made
SplitHand_checks_naturals(g, idx) ==
    LET hand == g.table.player_hands[idx + 1]
        bet == hand.bet
        w == withdraw(g.bank, bet)
        c0 == hand.hand[1]
        c1 == hand.hand[2]
    IN  IF ~can_split(hand.hand, split_context(g))
        THEN {[handled |-> FALSE, g |-> g]}
        ELSE IF g.bank < hand.bet THEN {[handled |-> FALSE, g |-> g]}
        ELSE IF ~w.ok
        THEN {[handled |-> FALSE, g |-> [g EXCEPT !.bank = w.balance]]}
        ELSE {[handled |-> TRUE,
               g |-> IF d.panicked THEN [g EXCEPT !.panicked = TRUE]
                     ELSE resolve_blackjack_or_continue(
                         [g EXCEPT
                            !.bank = w.balance,
                            !.shoe = d.shoe,
                            !.table.player_hands =
                                Append([@ EXCEPT ![idx + 1].hand =
                                                     <<c0, d.new1>>],
                                       [NewPlayerHand(bet) EXCEPT
                                            !.hand = <<c1, d.new2>>])])]
              : d \in DrawTwo(g.shoe)}

SplitHand(g, idx) ==
    LET hand == g.table.player_hands[idx + 1]
        bet == hand.bet
        w == withdraw(g.bank, bet)
        c0 == hand.hand[1]
        c1 == hand.hand[2]
    IN  IF ~can_split(hand.hand, split_context(g))
        THEN {[handled |-> FALSE, g |-> g]}
        ELSE IF g.bank < hand.bet THEN {[handled |-> FALSE, g |-> g]}
        ELSE IF ~w.ok
        THEN {[handled |-> FALSE, g |-> [g EXCEPT !.bank = w.balance]]}
        ELSE {[handled |-> TRUE,
               g |-> IF d.panicked THEN [g EXCEPT !.panicked = TRUE]
                     ELSE transition_to(
                         [g EXCEPT
                            !.bank = w.balance,
                            !.shoe = d.shoe,
                            !.table.player_hands =
                                Append([@ EXCEPT ![idx + 1].hand =
                                                     <<c0, d.new1>>],
                                       [NewPlayerHand(bet) EXCEPT
                                            !.hand = <<c1, d.new2>>])],
                         PlayerTurn(0))]
              : d \in DrawTwo(g.shoe)}

handle_player_turn(g, idx, action) ==
    CASE action = "Hit" -> HitHand(g, idx)
      [] action = "Stay" -> StayHand(g, idx)
      [] action = "Double" -> DoubleHand(g, idx)
      [] action = "Split" -> SplitHand(g, idx)

\* a per-hand outcome that looks at the dealer's bust first
HandResult_dealer_bust_first(hand, dealer_hand) ==
    LET dealer_score == hand_score(dealer_hand)
        dealer_bust == is_bust(dealer_hand)
        player_score == hand_score(hand)
        player_bust == is_bust(hand)
    IN  IF dealer_bust THEN "PlayerWin"
        ELSE IF player_bust THEN "DealerWin"
        ELSE determine(player_score, dealer_score)

\* the per-hand outcome computed inside resolve_round's loop
HandResult(hand, dealer_hand) ==
    LET dealer_score == hand_score(dealer_hand)
        dealer_bust == is_bust(dealer_hand)
        player_score == hand_score(hand)
        player_bust == is_bust(hand)
    IN  IF player_bust THEN "DealerWin"
        ELSE IF dealer_bust THEN "PlayerWin"
        ELSE determine(player_score, dealer_score)

\* the deposit resolve_round makes for one hand
HandPayout(r, bet) ==
    IF r = "PlayerWin" THEN bet * 2
    ELSE IF r = "Push" THEN bet
    ELSE 0

\* for hand in &self.table.player_hands { ... }, from hand i on
RECURSIVE SettleHands(_, _, _, _)
SettleHands(hands, dealer_hand, i, acc) ==
    IF i > Len(hands) THEN acc
    ELSE LET r == HandResult(hands[i].hand, dealer_hand)
         IN  SettleHands(hands, dealer_hand, i + 1,
                 [bank |-> deposit(acc.bank, HandPayout(r, hands[i].bet)),
                  any_win |-> acc.any_win \/ r = "PlayerWin",
                  any_push |-> acc.any_push \/ r = "Push",
                  any_loss |-> acc.any_loss \/ r = "DealerWin"])

\* a collapse without the branch for mixed outcomes
Collapse_unmixed_only(any_win, any_push, any_loss) ==
    IF any_win /\ ~any_loss THEN "PlayerWin"
    ELSE IF any_loss /\ ~any_win /\ ~any_push THEN "DealerWin"
    ELSE IF any_push /\ ~any_win /\ ~any_loss THEN "Push"
    ELSE "Pending"

\* "Collapse multiple results into one display result for now"
Collapse(any_win, any_push, any_loss) ==
    IF any_win /\ ~any_loss THEN "PlayerWin"
    ELSE IF any_loss /\ ~any_win /\ ~any_push THEN "DealerWin"
    ELSE IF any_push /\ ~any_win /\ ~any_loss THEN "Push"
    ELSE IF any_win \/ any_push \/ any_loss THEN "Push"
    ELSE "Pending"

\* a settlement that moves to RoundOver before it sets the result
resolve_round_transition_first(g) ==
    IF g.panicked THEN g
    ELSE LET acc == SettleHands(g.table.player_hands, g.table.dealer_hand, 1,
                                [bank |-> g.bank, any_win |-> FALSE,
                                 any_push |-> FALSE, any_loss |-> FALSE])
         IN  set_result(
                 transition_to([g EXCEPT !.bank = acc.bank], RoundOver),
                 Collapse(acc.any_win, acc.any_push, acc.any_loss))

resolve_round(g) ==
    IF g.panicked THEN g
    ELSE LET acc == SettleHands(g.table.player_hands, g.table.dealer_hand, 1,
                                [bank |-> g.bank, any_win |-> FALSE,
                                 any_push |-> FALSE, any_loss |-> FALSE])
         IN  transition_to(
                 set_result([g EXCEPT !.bank = acc.bank],
                            Collapse(acc.any_win, acc.any_push, acc.any_loss)),
                 RoundOver)

\* while rules::dealer_should_hit(&self.table.dealer_hand) { draw }
RECURSIVE DealerDraws(_)
DealerDraws(g) ==
    IF g.panicked THEN {g}
    ELSE IF dealer_should_hit(g.table.dealer_hand)
    THEN UNION {DealerDraws(x) : x \in DrawToDealer(g)}
    ELSE {g}

\* a dealer's turn that runs the settlement twice
play_dealer_settles_twice(g) ==
    {resolve_round(resolve_round(x)) : x \in DealerDraws(g)}

\* a dealer who does not draw when every player hand is bust
play_dealer_skips_when_all_bust(g) ==
    IF ~g.panicked /\ \A j \in 1..Len(g.table.player_hands) :
                         is_bust(g.table.player_hands[j].hand)
    THEN {resolve_round(g)}
    ELSE {resolve_round(x) : x \in DealerDraws(g)}

play_dealer(g) == {resolve_round(x) : x \in DealerDraws(g)}

\* an advance that deals but leaves the dealer's turn to a later call
advance_dealing_only(g) ==
    IF ~g.panicked /\ g.state = Dealing
    THEN deal_initial_cards(g)
    ELSE {g}

RECURSIVE advance_automatic_transitions(_)
advance_automatic_transitions(g) ==
    IF g.panicked THEN {g}
    ELSE IF g.state = Dealing
    THEN UNION {advance_automatic_transitions(x) : x \in deal_initial_cards(g)}
    ELSE IF g.state = DealerTurn
    THEN UNION {advance_automatic_transitions(x) : x \in play_dealer(g)}
    ELSE {g}

\* a round start that empties the hands on the table instead of replacing them
start_round_keeps_hands(g) ==
    LET g1 == [g EXCEPT !.events = <<>>,
                        !.table.player_hands =
                            [j \in 1..Len(@) |->
                                [@[j] EXCEPT !.hand = <<>>,
                                             !.is_complete = FALSE]],
                        !.table.dealer_hand = <<>>,
                        !.result = "Pending"]
        g2 == transition_to(g1, Dealing)
        bet == g2.table.player_hands[1].bet
        w == withdraw(g2.bank, bet)
    IN  IF ~w.ok THEN {[g2 EXCEPT !.bank = w.balance]}
        ELSE advance_automatic_transitions([g2 EXCEPT !.bank = w.balance])

start_round(g) ==
    LET g1 == [g EXCEPT !.events = <<>>,
                        !.table.player_hands = <<NewPlayerHand(DefaultBet)>>,
                        !.table.dealer_hand = <<>>,
                        !.result = "Pending"]
        g2 == transition_to(g1, Dealing)
        bet == g2.table.player_hands[1].bet
        w == withdraw(g2.bank, bet)
    IN  IF ~w.ok THEN {[g2 EXCEPT !.bank = w.balance]}
        ELSE advance_automatic_transitions([g2 EXCEPT !.bank = w.balance])

\* an apply that pushes ActionIgnored in an engine-driven phase and goes on
apply_without_early_return(g, action) ==
    LET snapshot == g.state
    IN  IF snapshot.tag = "PlayerTurn"
        THEN UNION {
            IF ~r.handled
            THEN {[r.g EXCEPT !.events =
                                  Append(@, ActionIgnored(action, snapshot))]}
            ELSE advance_automatic_transitions(
                     [r.g EXCEPT !.events = <<ActionApplied(action)>> \o @])
            : r \in handle_player_turn(g, snapshot.hand_index, action)}
        ELSE advance_automatic_transitions(
                 [g EXCEPT !.events = <<ActionIgnored(action, snapshot)>>])

apply(g, action) ==
    LET snapshot == g.state
    IN  IF snapshot.tag = "PlayerTurn"
        THEN UNION {
            IF ~r.handled
            THEN {[r.g EXCEPT !.events =
                                  Append(@, ActionIgnored(action, snapshot))]}
            ELSE advance_automatic_transitions(
                     [r.g EXCEPT !.events = <<ActionApplied(action)>> \o @])
            : r \in handle_player_turn(g, snapshot.hand_index, action)}
        ELSE {[g EXCEPT !.events = <<ActionIgnored(action, snapshot)>>]}

\* a request that starts a round in whatever phase it is made
request_new_round_unguarded(g) ==
    {[x EXCEPT !.events = <<RoundStarted>> \o @]
     : x \in start_round(IF needs_shuffle(g) THEN shuffle_shoe(g) ELSE g)}

\* a request that is also accepted in Dealing
request_new_round_from_dealing(g) ==
    IF g.state \notin {RoundOver, Dealing}
    THEN {[g EXCEPT !.events = <<RoundStartIgnored(g.state)>>]}
    ELSE {[x EXCEPT !.events = <<RoundStarted>> \o @]
          : x \in start_round(IF needs_shuffle(g) THEN shuffle_shoe(g) ELSE g)}

request_new_round(g) ==
    IF g.state # RoundOver
    THEN {[g EXCEPT !.events = <<RoundStartIgnored(g.state)>>]}
    ELSE {[x EXCEPT !.events = <<RoundStarted>> \o @]
          : x \in start_round(IF needs_shuffle(g) THEN shuffle_shoe(g) ELSE g)}

\* an available_actions that does not look at the bank
available_actions_ignores_bank(g) ==
    IF g.state.tag = "PlayerTurn"
    THEN LET hand == g.table.player_hands[current_hand_idx(g) + 1]
             c1 == <<"Hit", "Stay">>
             c2 == IF can_double(hand.hand) THEN <<"Double">> \o c1 ELSE c1
         IN  IF can_split(hand.hand, split_context(g))
             THEN <<"Split">> \o c2 ELSE c2
    ELSE <<>>

available_actions(g) ==
    IF g.state.tag = "PlayerTurn"
    THEN LET hand == g.table.player_hands[current_hand_idx(g) + 1]
             c1 == <<"Hit", "Stay">>
             c2 == IF can_double(hand.hand) /\ g.bank >= hand.bet
                   THEN <<"Double">> \o c1 ELSE c1
         IN  IF can_split(hand.hand, split_context(g)) /\ g.bank >= hand.bet
             THEN <<"Split">> \o c2 ELSE c2
    ELSE <<>>

\* VisibleCard
FaceUp(card) == [face |-> "FaceUp", card |-> card]
FaceDown == [face |-> "FaceDown"]

\* Option<u8>
None == <<>>
Some(x) == <<x>>

\* a dealer view that keeps the first card face-down in every phase
DealerView_always_hidden(g) ==
    LET dealer_hand == g.table.dealer_hand
        visible_cards == IF dealer_hand = <<>> THEN <<>> ELSE Tail(dealer_hand)
    IN  [cards |-> [i \in 1..Len(dealer_hand) |->
                       IF i = 1 THEN FaceDown ELSE FaceUp(dealer_hand[i])],
         score |-> IF visible_cards = <<>> THEN None
                   ELSE Some(hand_score(visible_cards)),
         hidden |-> TRUE]

\* a dealer view that shows the score of the whole hand while a card is hidden
DealerView_scores_whole_hand(g) ==
    LET dealer_hand == g.table.dealer_hand
    IN  IF g.state.tag \in {"Dealing", "PlayerTurn"}
        THEN [cards |-> [i \in 1..Len(dealer_hand) |->
                            IF i = 1 THEN FaceDown ELSE FaceUp(dealer_hand[i])],
              score |-> IF Len(dealer_hand) <= 1 THEN None
                        ELSE Some(hand_score(dealer_hand)),
              hidden |-> TRUE]
        ELSE [cards |-> [i \in 1..Len(dealer_hand) |-> FaceUp(dealer_hand[i])],
              score |-> Some(hand_score(dealer_hand)),
              hidden |-> FALSE]

\* (dealer_cards, dealer_visible_score, dealer_has_hidden_card) of view()
DealerView(g) ==
    LET dealer_hand == g.table.dealer_hand
    IN  IF g.state.tag \in {"Dealing", "PlayerTurn"}
        THEN LET visible_cards == IF dealer_hand = <<>> THEN <<>>
                                  ELSE Tail(dealer_hand)
             IN  [cards |-> [i \in 1..Len(dealer_hand) |->
                                IF i = 1 THEN FaceDown
                                ELSE FaceUp(dealer_hand[i])],
                  score |-> IF visible_cards = <<>> THEN None
                            ELSE Some(hand_score(visible_cards)),
                  hidden |-> TRUE]
        ELSE [cards |-> [i \in 1..Len(dealer_hand) |-> FaceUp(dealer_hand[i])],
              score |-> Some(hand_score(dealer_hand)),
              hidden |-> FALSE]

\* PlayerHandView of one hand
PlayerHandView(h) ==
    [cards |-> [k \in 1..Len(h.hand) |-> FaceUp(h.hand[k])],
     score |-> hand_score(h.hand),
     bet_amount |-> h.bet,
     is_complete |-> h.is_complete]

RECURSIVE SumBets(_)
SumBets(hands) ==
    IF hands = <<>> THEN 0 ELSE Head(hands).bet + SumBets(Tail(hands))

view(g) ==
    LET dealer == DealerView(g)
    IN  [available_actions |-> available_actions(g),
         phase |-> g.state,
         player_hands |-> [j \in 1..Len(g.table.player_hands) |->
                              PlayerHandView(g.table.player_hands[j])],
         active_hand_index |-> current_hand_idx(g),
         dealer_cards |-> dealer.cards,
         dealer_visible_score |-> dealer.score,
         dealer_has_hidden_card |-> dealer.hidden,
         bank_balance |-> g.bank,
         total_bet |-> SumBets(g.table.player_hands),
         result |-> g.result,
         can_hit |-> g.state.tag = "PlayerTurn",
         can_stay |-> g.state.tag = "PlayerTurn",
         can_start_new_round |-> g.state = RoundOver]

(***************************************************************************)
(* The state machine.  Blackjack::new() gives the initial state; App::new  *)
(* calls start_round once, and afterwards the input loop calls apply and   *)
(* request_new_round in any order (card_games_cli/src/app.rs).  The events *)
(* a call returns are not kept: a statement about them is made of the      *)
(* outcomes of the call in the state it is made in.                        *)
(***************************************************************************)
Init ==
    /\ state = Dealing
    /\ shoe \in {new_shuffled} \cup {rigged(l) : l \in RiggedShoes}
                \cup {rigged(FullShoe)}
    /\ table = [player_hands |-> <<NewPlayerHand(DefaultBet)>>,
                dealer_hand |-> <<>>]
    /\ bank \in InitBanks
    /\ result = "Pending"
    /\ rounds = 0
    /\ panicked = FALSE
    /\ scored = Score(<<>>)

\* the call returned, leaving the struct as in g, or died in Shoe::draw
Return(g, started) ==
    IF g.panicked
    THEN /\ panicked' = TRUE
         /\ UNCHANGED <<state, shoe, table, bank, result, rounds, scored>>
    ELSE /\ state' = g.state
         /\ shoe' = g.shoe
         /\ table' = g.table
         /\ bank' = g.bank
         /\ result' = g.result
         /\ rounds' = rounds + started
         /\ panicked' = FALSE
         /\ UNCHANGED scored

StartRound ==
    /\ ~panicked
    /\ rounds = 0
    /\ \E g \in start_round(Self) : Return(g, 1)

Apply(action) ==
    /\ ~panicked
    /\ rounds > 0
    /\ \E g \in apply(Self, action) : Return(g, 0)

RequestNewRound ==
    /\ ~panicked
    /\ rounds > 0
    /\ state = RoundOver => rounds < MaxRounds
    /\ \E g \in request_new_round(Self) :
           Return(g, IF state = RoundOver THEN 1 ELSE 0)

Next ==
    \/ StartRound
    \/ \E action \in PlayerActions : Apply(action)
    \/ RequestNewRound

Spec == Init /\ [][Next]_vars

(***************************************************************************)
(* One game from Blackjack::new() with its 52 cards shuffled into the      *)
(* order FullShoe, followed round after round up to the deal that follows  *)
(* the first replacement of the shoe; every draw that can fail is a draw   *)
(* from the 52 cards the game was created with.                            *)
(***************************************************************************)
\* rounds started on the one shoe
MaxRoundsFull == 6

InitFull ==
    /\ state = Dealing
    /\ shoe = rigged(FullShoe)
    /\ table = [player_hands |-> <<NewPlayerHand(DefaultBet)>>,
                dealer_hand |-> <<>>]
    /\ bank = InitialBank
    /\ result = "Pending"
    /\ rounds = 0
    /\ panicked = FALSE
    /\ scored = Score(<<>>)

\* the shoe is still the one the game was created with
FirstShoe == shoe.shuffled = {}

ApplyFull(action) ==
    /\ FirstShoe
    /\ Apply(action)

RequestNewRoundFull ==
    /\ ~panicked
    /\ rounds > 0
    /\ FirstShoe
    /\ state = RoundOver => rounds < MaxRoundsFull
    /\ \E g \in request_new_round(Self) :
           Return(g, IF state = RoundOver THEN 1 ELSE 0)

NextFull ==
    \/ StartRound
    \/ \E action \in PlayerActions : ApplyFull(action)
    \/ RequestNewRoundFull

SpecFull == InitFull /\ [][NextFull]_vars

\* the player keeps playing: an action that the engine applies is not put off
\* for ever
LiveSpecFull ==
    SpecFull /\ WF_vars(\E action \in PlayerActions : ApplyFull(action))

(***************************************************************************)
(* The scoring rules on their own: hands of distinct cards are built card  *)
(* by card, as the tests of rules.rs build them with Hand::add, and each   *)
(* is put to hand_score and is_bust.                                       *)
(***************************************************************************)
\* cards in a scored hand
MaxHandLen == 4
\* the card values scored: the Ace, two numerics and a face card
ScoreValues == {ACE, 5, 9, KING}

ScoreCards == {Card(s, v) : s \in Suits, v \in ScoreValues}

InitScore ==
    /\ state = Dealing
    /\ shoe = new_shuffled
    /\ table = [player_hands |-> <<NewPlayerHand(DefaultBet)>>,
                dealer_hand |-> <<>>]
    /\ bank = InitialBank
    /\ result = "Pending"
    /\ rounds = 0
    /\ panicked = FALSE
    /\ scored \in {Score(<<>>)} \cup {Score(<<c>>) : c \in ScoreCards}

\* hand.add(card); hand_score(hand.cards()); is_bust(hand.cards())
AddAndScore(card) ==
    /\ Len(scored.hand) < MaxHandLen
    /\ \A k \in 1..Len(scored.hand) : scored.hand[k] # card
    /\ scored' = Score(Append(scored.hand, card))
    /\ UNCHANGED <<state, shoe, table, bank, result, rounds, panicked>>

NextScore == \E card \in ScoreCards : AddAndScore(card)

SpecScore == InitScore /\ [][NextScore]_vars

(***************************************************************************)
(* Properties.                                                             *)
(*                                                                         *)
(* A step with rounds' = rounds + 1 is a start_round call that returned    *)
(* (made by App::new or by an accepted request_new_round); a state with    *)
(* rounds > 0 is one a caller observes after a public call.                *)
(***************************************************************************)
InputWaiting == state.tag \in {"PlayerTurn", "RoundOver"}

\* the round-start withdrawal failed: Dealing, nothing dealt, bank below the bet
StartRefused ==
    /\ state = Dealing
    /\ bank < DefaultBet
    /\ result = "Pending"
    /\ table = [player_hands |-> <<NewPlayerHand(DefaultBet)>>,
                dealer_hand |-> <<>>]

\* C1 as stated: after every public operation the phase is PlayerTurn or
\* RoundOver, whatever the bank balance.
C1_AlwaysInputWaiting == rounds > 0 => InputWaiting

\* C1 amended: after every public operation the phase is PlayerTurn or
\* RoundOver, except that after a round start whose withdrawal failed (bank
\* below the bet) it is Dealing with nothing dealt; DealerTurn is never seen.
C1_InputWaitingOrStartRefused == rounds > 0 => (InputWaiting \/ StartRefused)

\* a new round was requested with a bank that cannot cover the bet
C1_Witness == rounds > 1 /\ StartRefused

StartReturned == rounds' = rounds + 1 /\ ~panicked'

\* C2: a deal that gives the player a natural and the dealer none ends the
\* call in RoundOver with PlayerWin and the bank at its balance before the
\* round - bet + (bet + bet*3/2), that is - 10 + 25 for the bet of 10.
C2_NaturalPaysThreeToTwo ==
    [][(/\ StartReturned
        /\ is_blackjack(table'.player_hands[1].hand)
        /\ ~is_blackjack(table'.dealer_hand))
       => LET b == table'.player_hands[1].bet
          IN  /\ state' = RoundOver
              /\ result' = "PlayerWin"
              /\ b = 10
              /\ bank' = (bank - b) + (b + ((b * 3) \div 2))
              /\ bank' = (bank - 10) + 25
              /\ Len(table'.player_hands) = 1
              /\ ~table'.player_hands[1].is_complete]_vars

C2_Witness ==
    /\ rounds > 0
    /\ state = RoundOver
    /\ result = "PlayerWin"
    /\ Len(table.player_hands) = 1
    /\ is_blackjack(table.player_hands[1].hand)
    /\ ~is_blackjack(table.dealer_hand)

\* C3: a deal that gives both the player and the dealer a natural ends the
\* call in RoundOver with Push and the bank exactly at its balance before the
\* round.
C3_DoubleNaturalIsPush ==
    [][(/\ StartReturned
        /\ is_blackjack(table'.player_hands[1].hand)
        /\ is_blackjack(table'.dealer_hand))
       => /\ state' = RoundOver
          /\ result' = "Push"
          /\ bank' = bank]_vars

C3_Witness ==
    /\ rounds > 0
    /\ state = RoundOver
    /\ result = "Push"
    /\ Len(table.player_hands) = 1
    /\ is_blackjack(table.player_hands[1].hand)
    /\ is_blackjack(table.dealer_hand)

\* C4: a deal that gives only the dealer a natural ends the call in RoundOver
\* with DealerWin and the bank at its balance before the round minus the bet;
\* a deal without a natural ends it in PlayerTurn(0) with result Pending.
C4_DealerNaturalOrPlay ==
    [][(StartReturned /\ Len(table'.dealer_hand) = 2)
       => LET pb == is_blackjack(table'.player_hands[1].hand)
              db == is_blackjack(table'.dealer_hand)
          IN  /\ (~pb /\ db)
                 => /\ state' = RoundOver
                    /\ result' = "DealerWin"
                    /\ bank' = bank - table'.player_hands[1].bet
                    /\ bank' = bank - 10
              /\ (~pb /\ ~db)
                 => /\ state' = PlayerTurn(0)
                    /\ result' = "Pending"
                    /\ bank' = bank - 10]_vars

C4_Witness ==
    /\ rounds > 0
    /\ state = RoundOver
    /\ result = "DealerWin"
    /\ Len(table.player_hands) = 1
    /\ ~table.player_hands[1].is_complete
    /\ ~is_blackjack(table.player_hands[1].hand)
    /\ is_blackjack(table.dealer_hand)

\* the sum of the bets on the table
RECURSIVE TotalBet(_)
TotalBet(hands) ==
    IF hands = <<>> THEN 0 ELSE Head(hands).bet + TotalBet(Tail(hands))

\* what the settlement of one hand credits, in the words of C5
HandCredit(h, dealer_hand) ==
    LET ps == hand_score(h.hand)
        ds == hand_score(dealer_hand)
    IN  IF ps > 21 THEN 0
        ELSE IF ds > 21 \/ ps > ds THEN 2 * h.bet
        ELSE IF ps = ds THEN h.bet
        ELSE 0

RECURSIVE TotalCredit(_, _)
TotalCredit(hands, dealer_hand) ==
    IF hands = <<>> THEN 0
    ELSE HandCredit(Head(hands), dealer_hand)
         + TotalCredit(Tail(hands), dealer_hand)

\* the call played the dealer's turn and settled the round
Settled == state.tag = "PlayerTurn" /\ state' = RoundOver /\ ~panicked'

\* C5: settlement after the dealer's turn credits each hand independently:
\* nothing for a busted hand (also when the dealer busted), else 2 x bet when
\* the dealer busted or the hand scores higher, bet on equal scores, nothing
\* on a lower score; the bank after settlement is the bank before it (the
\* balance at the call less what a Double in the call withdrew) plus the sum
\* of the credits, for one or two hands and doubled bets.
C5_SettlementPaysPerHand ==
    [][Settled
       => /\ Len(table'.player_hands) \in {1, 2}
          /\ bank' = (bank - (TotalBet(table'.player_hands)
                              - TotalBet(table.player_hands)))
                     + TotalCredit(table'.player_hands, table'.dealer_hand)]_vars

\* two hands settled with different credits, one of them doubled
C5_Witness ==
    /\ state = RoundOver
    /\ Len(table.player_hands) = 2
    /\ \A i \in 1..2 : table.player_hands[i].is_complete
    /\ \E i \in 1..2 : table.player_hands[i].bet = 2 * DefaultBet
    /\ HandCredit(table.player_hands[1], table.dealer_hand)
           # HandCredit(table.player_hands[2], table.dealer_hand)

\* the outcome of one hand, in the words of C5
HandOutcome(h, dealer_hand) ==
    LET ps == hand_score(h.hand)
        ds == hand_score(dealer_hand)
    IN  IF ps > 21 THEN "DealerWin"
        ELSE IF ds > 21 \/ ps > ds THEN "PlayerWin"
        ELSE IF ps = ds THEN "Push"
        ELSE "DealerWin"

\* the round was settled by resolve_round: every hand is complete
RoundSettled ==
    /\ state = RoundOver
    /\ \A i \in 1..Len(table.player_hands) : table.player_hands[i].is_complete

\* C6: the round-level result of settlement is PlayerWin only when every hand
\* won, DealerWin only when every hand lost, and Push when every hand pushed
\* and for every mixture of per-hand outcomes (win+loss, win+push, loss+push).
C6_CollapseRule ==
    RoundSettled
    => LET outcomes == {HandOutcome(table.player_hands[i], table.dealer_hand)
                          : i \in 1..Len(table.player_hands)}
       IN  result = IF outcomes = {"PlayerWin"} THEN "PlayerWin"
                    ELSE IF outcomes = {"DealerWin"} THEN "DealerWin"
                    ELSE "Push"

\* C7: a Split accepted in PlayerTurn(0) on a pair leaves exactly two hands of
\* two cards: hand 0 is [original card 0, first drawn card], hand 1 is
\* [original card 1, second drawn card]; both are incomplete and carry the
\* original bet, the bank is down by one more bet (two bets withdrawn in the
\* round), two cards have left the shoe and the phase is still PlayerTurn(0).
C7_SplitMakesTwoHands ==
    (/\ rounds > 0 /\ ~panicked
     /\ state = PlayerTurn(0)
     /\ Len(table.player_hands) = 1
     /\ Len(table.player_hands[1].hand) = 2
     /\ table.player_hands[1].hand[1].value = table.player_hands[1].hand[2].value
     /\ bank >= table.player_hands[1].bet
     /\ remaining(shoe) >= 2)
    => LET old == table.player_hands[1]
       IN  /\ apply(Self, "Split") # {}
           /\ \A g \in apply(Self, "Split") :
                /\ ~g.panicked
                /\ g.events = <<ActionApplied("Split")>>
                /\ g.state = PlayerTurn(0)
                /\ Len(g.table.player_hands) = 2
                /\ \E d1 \in DrawOutcomes(shoe) :
                     \E d2 \in DrawOutcomes(d1[2]) :
                        /\ g.table.player_hands[1].hand = <<old.hand[1], d1[1]>>
                        /\ g.table.player_hands[2].hand = <<old.hand[2], d2[1]>>
                        /\ g.shoe = d2[2]
                /\ remaining(g.shoe) = remaining(shoe) - 2
                /\ \A i \in 1..2 :
                     /\ ~g.table.player_hands[i].is_complete
                     /\ g.table.player_hands[i].bet = old.bet
                /\ old.bet = DefaultBet
                /\ g.bank = bank - old.bet
                /\ TotalBet(g.table.player_hands) = 2 * old.bet
                /\ g.table.dealer_hand = table.dealer_hand
                /\ g.result = result

\* a split was made: two open hands of two cards, hand 0 to play, two bets out
C7_Witness ==
    /\ state = PlayerTurn(0)
    /\ Len(table.player_hands) = 2
    /\ \A i \in 1..2 :
         /\ Len(table.player_hands[i].hand) = 2
         /\ ~table.player_hands[i].is_complete
         /\ table.player_hands[i].bet = DefaultBet
    /\ table.player_hands[1].hand[1].value = table.player_hands[2].hand[1].value
    /\ table.player_hands[1].hand[2] # table.player_hands[2].hand[2]
    /\ shoe.deck # <<>>

\* the call ignored the action: nothing changed, and it says so
Ignored(action) ==
    apply(Self, action) = {[Self EXCEPT !.events = <<ActionIgnored(action, state)>>]}

\* C8: Split is applied at most once per round: the table always holds one or
\* two player hands; once it holds two, a Split (on either hand, also a hand
\* that is again a pair) is ignored and Split is not among the legal actions,
\* and the table holds two hands until the next round starts.
C8_SplitAtMostOnce ==
    /\ [](/\ Len(table.player_hands) \in {1, 2}
          /\ (Len(table.player_hands) = 2 /\ ~panicked)
             => /\ Ignored("Split")
                /\ \A k \in 1..Len(available_actions(Self)) :
                       available_actions(Self)[k] # "Split")
    /\ [][(Len(table.player_hands) = 2 /\ Len(table'.player_hands) # 2)
          => (rounds' = rounds + 1 /\ Len(table'.player_hands) = 1)]_vars

\* after a split the hand to play is a pair again and the bank covers a bet
C8_Witness ==
    /\ state.tag = "PlayerTurn"
    /\ Len(table.player_hands) = 2
    /\ LET h == table.player_hands[state.hand_index + 1]
       IN  /\ Len(h.hand) = 2
           /\ h.hand[1].value = h.hand[2].value
           /\ ~h.is_complete
           /\ bank >= h.bet

\* the next incomplete hand after hand i (0-based), or 0 when there is none
NextOpen(hands, i) ==
    LET open == {j \in (i + 1)..(Len(hands) - 1) : ~hands[j + 1].is_complete}
    IN  IF open = {} THEN 0 ELSE CHOOSE j \in open : \A k \in open : j <= k

\* C9: a Double in PlayerTurn(i) on a hand of two cards that is incomplete,
\* with a bank of at least its bet, is accepted: it withdraws the hand's bet,
\* doubles that bet, adds one card to hand i, marks it complete and advances
\* to the next incomplete hand, else through the dealer's turn to RoundOver;
\* no other hand's cards or bet change.
C9_DoubleAccepted ==
    (/\ rounds > 0 /\ ~panicked
     /\ state.tag = "PlayerTurn"
     /\ Len(table.player_hands[state.hand_index + 1].hand) = 2
     /\ ~table.player_hands[state.hand_index + 1].is_complete
     /\ bank >= table.player_hands[state.hand_index + 1].bet)
    => LET i == state.hand_index
           n == Len(table.player_hands)
           old == table.player_hands[i + 1]
           nxt == NextOpen(table.player_hands, i)
       IN  /\ \A r \in handle_player_turn(Self, i, "Double") :
                r.g.panicked
                \/ /\ r.handled
                   /\ r.g.bank = bank - old.bet
                   /\ r.g.state = IF nxt > 0 THEN PlayerTurn(nxt) ELSE DealerTurn
                   /\ remaining(r.g.shoe) = remaining(shoe) - 1
           /\ \A g \in apply(Self, "Double") :
                g.panicked
                \/ /\ Head(g.events) = ActionApplied("Double")
                   /\ Len(g.table.player_hands) = n
                   /\ g.table.player_hands[i + 1].bet = 2 * old.bet
                   /\ Len(g.table.player_hands[i + 1].hand) = 3
                   /\ SubSeq(g.table.player_hands[i + 1].hand, 1, 2) = old.hand
                   /\ g.table.player_hands[i + 1].is_complete
                   /\ \A j \in 1..n :
                        j # i + 1
                        => /\ g.table.player_hands[j].hand = table.player_hands[j].hand
                           /\ g.table.player_hands[j].bet = table.player_hands[j].bet
                   /\ IF nxt > 0
                      THEN /\ g.state = PlayerTurn(nxt)
                           /\ g.bank = bank - old.bet
                           /\ g.table.dealer_hand = table.dealer_hand
                           /\ remaining(g.shoe) = remaining(shoe) - 1
                      ELSE /\ g.state = RoundOver
                           /\ g.bank = (bank - old.bet)
                                       + TotalCredit(g.table.player_hands,
                                                     g.table.dealer_hand)

\* hand 0 of a split was doubled and the turn went on to hand 1
C9_Witness ==
    /\ state = PlayerTurn(1)
    /\ Len(table.player_hands) = 2
    /\ table.player_hands[1].bet = 2 * DefaultBet
    /\ table.player_hands[1].is_complete
    /\ Len(table.player_hands[1].hand) = 3
    /\ ~is_bust(table.player_hands[1].hand)
    /\ table.player_hands[2].bet = DefaultBet
    /\ ~table.player_hands[2].is_complete

\* C10: a refused Double or Split (hand not eligible, or bank below the hand's
\* bet) changes nothing: bank, hands (cards, bets, completion flags, number),
\* shoe, phase and result are as before, and the call reports the action as
\* ignored.
C10_RefusedIsNoOp ==
    (rounds > 0 /\ ~panicked /\ state.tag = "PlayerTurn")
    => LET h == table.player_hands[state.hand_index + 1]
           pair == Len(h.hand) = 2 /\ h.hand[1].value = h.hand[2].value
       IN  /\ (Len(h.hand) # 2 \/ bank < h.bet) => Ignored("Double")
           /\ (~pair \/ Len(table.player_hands) > 1 \/ bank < h.bet)
              => Ignored("Split")
           /\ \A action \in {"Double", "Split"} :
                \A g \in apply(Self, action) :
                    (~g.panicked /\ Head(g.events).type = "ActionIgnored")
                    => g = [Self EXCEPT !.events = <<ActionIgnored(action, state)>>]

\* a pair the bank cannot cover: both Double and Split are refused
C10_Witness ==
    /\ rounds > 0 /\ ~panicked
    /\ state = PlayerTurn(0)
    /\ Len(table.player_hands) = 1
    /\ Len(table.player_hands[1].hand) = 2
    /\ table.player_hands[1].hand[1].value = table.player_hands[1].hand[2].value
    /\ bank < table.player_hands[1].bet
    /\ bank > 0

\* C11: a Hit in PlayerTurn(i) adds exactly one card from the shoe to hand i
\* and changes no bet and no other hand's cards; a hand that is then bust is
\* marked complete and play advances, any other hand (also one of exactly 21)
\* stays incomplete with the phase still PlayerTurn(i).
C11_HitAddsOneCard ==
    (rounds > 0 /\ ~panicked /\ state.tag = "PlayerTurn")
    => LET i == state.hand_index
           n == Len(table.player_hands)
           old == table.player_hands[i + 1]
           nxt == NextOpen(table.player_hands, i)
       IN  \A g \in apply(Self, "Hit") :
             g.panicked
             \/ LET new == g.table.player_hands[i + 1]
                IN  /\ Head(g.events) = ActionApplied("Hit")
                    /\ Len(g.table.player_hands) = n
                    /\ \E d \in DrawOutcomes(shoe) :
                         /\ new.hand = Append(old.hand, d[1])
                         /\ g.state.tag = "PlayerTurn" => g.shoe = d[2]
                    /\ \A j \in 1..n :
                         /\ g.table.player_hands[j].bet = table.player_hands[j].bet
                         /\ j # i + 1
                            => g.table.player_hands[j] = table.player_hands[j]
                    /\ IF hand_score(new.hand) > 21
                       THEN /\ new.is_complete
                            /\ IF nxt > 0
                               THEN /\ g.state = PlayerTurn(nxt)
                                    /\ g.bank = bank
                                    /\ g.table.dealer_hand = table.dealer_hand
                               ELSE /\ g.state = RoundOver
                                    /\ g.bank = bank
                                         + TotalCredit(g.table.player_hands,
                                                       g.table.dealer_hand)
                       ELSE /\ ~new.is_complete
                            /\ g.state = PlayerTurn(i)
                            /\ g.bank = bank
                            /\ g.result = result
                            /\ g.table.dealer_hand = table.dealer_hand

\* a hand was hit to exactly 21 and is still the hand to play
C11_Witness ==
    /\ state.tag = "PlayerTurn"
    /\ LET h == table.player_hands[state.hand_index + 1]
       IN  /\ Len(h.hand) = 3
           /\ hand_score(h.hand) = 21
           /\ ~h.is_complete

\* C12: a Stay in PlayerTurn(i) marks hand i complete, draws no card for the
\* player and does not touch the bank, then advances: to PlayerTurn(j) for the
\* lowest j > i whose hand is incomplete, and when there is none the dealer
\* plays and the round is settled, so that the phase observed is RoundOver.
C12_StayCompletesAndAdvances ==
    (rounds > 0 /\ ~panicked /\ state.tag = "PlayerTurn")
    => LET i == state.hand_index
           n == Len(table.player_hands)
           nxt == NextOpen(table.player_hands, i)
       IN  /\ \A r \in handle_player_turn(Self, i, "Stay") :
                /\ r.handled
                /\ ~r.g.panicked
                /\ r.g.bank = bank
                /\ r.g.shoe = shoe
                /\ r.g.state = IF nxt > 0 THEN PlayerTurn(nxt) ELSE DealerTurn
           /\ \A g \in apply(Self, "Stay") :
                g.panicked
                \/ /\ Head(g.events) = ActionApplied("Stay")
                   /\ Len(g.table.player_hands) = n
                   /\ g.table.player_hands[i + 1]
                          = [table.player_hands[i + 1] EXCEPT !.is_complete = TRUE]
                   /\ \A j \in 1..n :
                        j # i + 1 => g.table.player_hands[j] = table.player_hands[j]
                   /\ IF nxt > 0
                      THEN /\ g.state = PlayerTurn(nxt)
                           /\ nxt > i
                           /\ ~table.player_hands[nxt + 1].is_complete
                           /\ \A j \in (i + 1)..(nxt - 1) :
                                  table.player_hands[j + 1].is_complete
                           /\ g.bank = bank
                           /\ g.shoe = shoe
                           /\ g.table.dealer_hand = table.dealer_hand
                           /\ g.result = result
                      ELSE /\ g.state = RoundOver
                           /\ g.result # "Pending"
                           /\ g.bank = bank + TotalCredit(g.table.player_hands,
                                                          g.table.dealer_hand)

\* hand 0 of a split was stood on as dealt and the turn went on to hand 1
C12_Witness ==
    /\ state = PlayerTurn(1)
    /\ Len(table.player_hands) = 2
    /\ table.player_hands[1].is_complete
    /\ Len(table.player_hands[1].hand) = 2
    /\ table.player_hands[1].bet = DefaultBet
    /\ ~table.player_hands[2].is_complete

\* C13: apply(action) in a phase other than PlayerTurn (Dealing, DealerTurn,
\* RoundOver) changes nothing (phase, bank, table, shoe, result) and returns
\* exactly one event, ActionIgnored with that action and that phase, for each
\* of Hit, Stay, Double and Split.
C13_ApplyIgnoredOutsidePlayerTurn ==
    (rounds > 0 /\ ~panicked)
    => \A action \in {"Hit", "Stay", "Double", "Split"} :
         /\ state.tag # "PlayerTurn" => Ignored(action)
         /\ \A phase \in {Dealing, DealerTurn, RoundOver} :
              apply([Self EXCEPT !.state = phase], action)
                = {[Self EXCEPT !.state = phase,
                                !.events = <<ActionIgnored(action, phase)>>]}

\* the game waits in Dealing after a refused round start, with cards to deal
C13_Witness ==
    /\ rounds > 0
    /\ ~panicked
    /\ state = Dealing
    /\ remaining(shoe) >= 4

\* C14: request_new_round is accepted only in RoundOver: in every other phase
\* it changes nothing (phase, bank, table, shoe, result) and returns exactly
\* one event, RoundStartIgnored naming the current phase.
C14_NewRoundOnlyInRoundOver ==
    (rounds > 0 /\ ~panicked)
    => /\ state # RoundOver
          => request_new_round(Self)
               = {[Self EXCEPT !.events = <<RoundStartIgnored(state)>>]}
       /\ \A phase \in {Dealing, DealerTurn, PlayerTurn(0), PlayerTurn(1)} :
            request_new_round([Self EXCEPT !.state = phase])
              = {[Self EXCEPT !.state = phase,
                              !.events = <<RoundStartIgnored(phase)>>]}
       /\ state = RoundOver
          => \A g \in request_new_round(Self) :
                 g.panicked \/ Head(g.events) = RoundStarted

\* a round is being played on a shoe that a new round would replace
C14_Witness ==
    /\ rounds > 0
    /\ ~panicked
    /\ state.tag = "PlayerTurn"
    /\ Len(table.dealer_hand) = 2
    /\ remaining(shoe) < ShuffleThreshold
    /\ bank >= DefaultBet

\* request_new_round was accepted: a round start from RoundOver returned
NewRoundFromRoundOver == state = RoundOver /\ rounds' = rounds + 1 /\ ~panicked'

\* the cards lying on a table
CardsOn(t) ==
    {t.dealer_hand[k] : k \in 1..Len(t.dealer_hand)}
    \cup UNION {{t.player_hands[j].hand[k] : k \in 1..Len(t.player_hands[j].hand)}
                : j \in 1..Len(t.player_hands)}

\* what the evaluation of the naturals pays on a bet of 10
NaturalCredit(t) ==
    LET pb == Len(t.player_hands[1].hand) = 2
              /\ hand_score(t.player_hands[1].hand) = 21
        db == Len(t.dealer_hand) = 2 /\ hand_score(t.dealer_hand) = 21
    IN  IF pb /\ db THEN 10 ELSE IF pb THEN 25 ELSE 0

\* the table, result and shoe side of C15, which holds for every bank balance
NewTable(dealt) ==
    /\ Len(table'.player_hands) = 1
    /\ table'.player_hands[1].bet = 10
    /\ ~table'.player_hands[1].is_complete
    /\ Len(table'.player_hands[1].hand) = (IF dealt THEN 2 ELSE 0)
    /\ Len(table'.dealer_hand) = (IF dealt THEN 2 ELSE 0)
    /\ remaining(shoe) >= ShuffleThreshold
       => CardsOn(table') \cap CardsOn(table) = {}
    /\ (state' = RoundOver) = (NaturalCredit(table') > 0
                               \/ (dealt /\ hand_score(table'.dealer_hand) = 21))
    /\ state' # RoundOver => result' = "Pending"

\* C15 as stated: a new round started from RoundOver leaves exactly one
\* player hand with the default bet 10, none of the previous round's cards,
\* the result reset, and the bank carried over reduced by exactly 10 before
\* any payout of the new round.
C15_NewRoundAlwaysWithdraws ==
    [][NewRoundFromRoundOver
       => /\ NewTable(Len(table'.dealer_hand) = 2)
          /\ bank' = (bank - 10) + NaturalCredit(table')]_vars

\* C15 amended: a new round started from RoundOver leaves exactly one player
\* hand with the default bet 10, none of the previous round's cards and the
\* result reset; when the bank carried over covers the bet it is reduced by
\* exactly 10 before any payout of the new round, and otherwise it is
\* unchanged and no card is dealt.
C15_NewRoundRecreatesTable ==
    [][NewRoundFromRoundOver
       => IF bank >= 10
          THEN /\ NewTable(TRUE)
               /\ bank' = (bank - 10) + NaturalCredit(table')
          ELSE /\ NewTable(FALSE)
               /\ bank' = bank]_vars

\* the second round began after a round that lost a doubled or a split bet
C15_Witness ==
    /\ rounds = 2
    /\ state = PlayerTurn(0)
    /\ bank = InitialBank - 30
    /\ Len(table.player_hands) = 1
    /\ table.player_hands[1].bet = DefaultBet
    /\ Len(table.player_hands[1].hand) = 2

\* C16: on an accepted request_new_round the shoe is replaced by a fresh full
\* shoe before dealing if and only if fewer than 15 cards remain; with 15 or
\* more the same shoe continues and the new round's first card is the next
\* card of the old shoe.  (A full shoe has every card of the deck, 52 in the
\* program, NumSuits * Cardinality(DeckValues) here.)
C16_ReshuffleBelowFifteen ==
    [][NewRoundFromRoundOver
       => LET dealt == <<table'.player_hands[1].hand, table'.dealer_hand>>
              drawn == CardsOn(table')
          IN  IF remaining(shoe) < 15
              THEN /\ shoe'.deck = <<>>
                   /\ shoe'.shuffled \cup drawn = AllCards
                   /\ shoe'.shuffled \cap drawn = {}
                   /\ remaining(shoe') + Cardinality(drawn)
                          = NumSuits * Cardinality(DeckValues)
              ELSE /\ remaining(shoe') = remaining(shoe) - Cardinality(drawn)
                   /\ shoe'.shuffled \subseteq shoe.shuffled
                   /\ shoe'.deck = SubSeq(shoe.deck, 1, Len(shoe'.deck))
                   /\ (shoe.deck # <<>> /\ drawn # {})
                      => /\ dealt[1][1] = shoe.deck[Len(shoe.deck)]
                         /\ Cardinality(drawn) = 4]_vars

\* a round was dealt from a shoe of exactly 15 cards, which was not replaced
C16_Witness ==
    /\ rounds > 1
    /\ state = PlayerTurn(0)
    /\ Len(shoe.deck) = ShuffleThreshold - 4
    /\ Len(table.player_hands) = 1
    /\ table.player_hands[1].hand = <<FullShoe[15], FullShoe[14]>>
    /\ table.dealer_hand = <<FullShoe[13], FullShoe[12]>>

\* C17: the engine never draws from an empty shoe: a game created with a full
\* shuffled shoe and driven only through start_round, apply and
\* request_new_round reaches no draw with 0 cards remaining.
C17_NeverDrawsFromEmptyShoe == ~panicked

\* the call left everything as it was and signalled no change of phase
Unsignalled(g) ==
    /\ ~g.panicked
    /\ \A k \in 1..Len(g.events) : g.events[k].type # "StateChanged"
    /\ g.state = state
    /\ g.table = table
    /\ g.result = result
    /\ g.bank = bank
    /\ remaining(g.shoe) \in {remaining(shoe), remaining(new_shuffled)}

\* C18 as stated: when the round-start withdrawal fails (bank below the bet of
\* 10) no card is dealt, the bank is unchanged and no state change is
\* signalled: no StateChanged event is returned and phase, table and result
\* are as before the call.
C18_FailedStartChangesNothing ==
    (~panicked /\ bank < 10)
    => /\ rounds = 0 => \A g \in start_round(Self) : Unsignalled(g)
       /\ (rounds > 0 /\ state = RoundOver)
          => \A g \in request_new_round(Self) : Unsignalled(g)

\* C18 amended: when the round-start withdrawal fails (bank below the bet of
\* 10) no card is dealt and the bank is unchanged; at the first round start,
\* made in Dealing on an empty table, nothing changes and no event is
\* returned; at a round start requested in RoundOver the table is recreated
\* empty, the result is reset to Pending and the phase becomes Dealing, which
\* the one event StateChanged(RoundOver, Dealing) signals.
C18_FailedStartDealsNothing ==
    (~panicked /\ bank < 10)
    => LET fresh == [player_hands |-> <<NewPlayerHand(10)>>, dealer_hand |-> <<>>]
       IN  /\ rounds = 0 => start_round(Self) = {Self}
           /\ (rounds > 0 /\ state = RoundOver)
              => request_new_round(Self)
                   = {[Self EXCEPT
                         !.state = Dealing,
                         !.table = fresh,
                         !.result = "Pending",
                         !.shoe = IF remaining(shoe) < 15
                                  THEN new_shuffled ELSE shoe,
                         !.events = <<RoundStarted,
                                      StateChanged(RoundOver, Dealing)>>]}

\* a round start was refused after a round that left less than a bet
C18_Witness ==
    /\ rounds = 2
    /\ state = Dealing
    /\ bank > 0
    /\ bank < DefaultBet
    /\ shoe = new_shuffled
    /\ table.dealer_hand = <<>>

\* the number of cards in the player's hands
RECURSIVE TotalLen(_)
TotalLen(hands) ==
    IF hands = <<>> THEN 0 ELSE Len(Head(hands).hand) + TotalLen(Tail(hands))

\* C19: the initial deal alternates player, dealer, player, dealer: the player
\* hand receives the 1st and 3rd cards drawn from the shoe and the dealer the
\* 2nd and 4th, exactly 4 cards leave the shoe, and both hands have exactly 2
\* cards when the naturals are evaluated.
C19_DealAlternates ==
    [][(StartReturned /\ table'.dealer_hand # <<>>)
       => /\ Len(table'.player_hands[1].hand) = 2
          /\ Len(table'.dealer_hand) = 2
          /\ (rounds = 0 \/ remaining(shoe) >= 15)
             => /\ remaining(shoe') = remaining(shoe) - 4
                /\ shoe.deck # <<>>
                   => LET n == Len(shoe.deck)
                      IN  /\ table'.player_hands[1].hand
                                = <<shoe.deck[n], shoe.deck[n - 2]>>
                          /\ table'.dealer_hand
                                = <<shoe.deck[n - 1], shoe.deck[n - 3]>>]_vars

\* C20: in the dealer's turn the dealer draws exactly while the dealer's
\* score is below 17 and stops at the first score of 17 or more (a soft 17 is
\* a stand): when settlement runs the dealer's score is at least 17, it was
\* below 17 before each card the dealer drew, the last one included, and a
\* dealer who starts the turn at 17 or more draws nothing.
C20_DealerDrawsBelowSeventeen ==
    [][Settled
       => LET before == table.dealer_hand
              after == table'.dealer_hand
              player == TotalLen(table'.player_hands) - TotalLen(table.player_hands)
          IN  /\ Len(before) = 2
              /\ SubSeq(after, 1, 2) = before
              /\ hand_score(after) >= 17
              /\ \A k \in 2..(Len(after) - 1) : hand_score(SubSeq(after, 1, k)) < 17
              /\ hand_score(before) >= 17 => after = before
              /\ remaining(shoe') = remaining(shoe) - player - (Len(after) - 2)]_vars

\* the round was settled with the dealer standing on the soft 17 dealt
C20_Witness ==
    /\ RoundSettled
    /\ Len(table.dealer_hand) = 2
    /\ hand_score(table.dealer_hand) = 17
    /\ CountAces(table.dealer_hand) = 1

\* the dealer's side of the view when the first card is hidden
HoleHidden(v, dealer_hand) ==
    /\ Len(v.dealer_cards) = Len(dealer_hand)
    /\ \A k \in 1..Len(dealer_hand) :
         v.dealer_cards[k] = IF k = 1 THEN FaceDown ELSE FaceUp(dealer_hand[k])
    /\ v.dealer_visible_score
         = IF Len(dealer_hand) <= 1 THEN None
           ELSE Some(hand_score(SubSeq(dealer_hand, 2, Len(dealer_hand))))
    /\ v.dealer_has_hidden_card

\* the dealer's side of the view when every card is shown
AllShown(v, dealer_hand) ==
    /\ Len(v.dealer_cards) = Len(dealer_hand)
    /\ \A k \in 1..Len(dealer_hand) : v.dealer_cards[k] = FaceUp(dealer_hand[k])
    /\ v.dealer_visible_score = Some(hand_score(dealer_hand))
    /\ ~v.dealer_has_hidden_card

\* C21: the view hides the hole card by phase: in Dealing and PlayerTurn the
\* dealer's first card is face-down, the later ones face-up, and the score
\* shown is that of the cards after the first; in DealerTurn and RoundOver
\* (also after a natural) every dealer card is face-up and the score shown is
\* the dealer's full score.  Player cards are always face-up.
C21_HoleCardHiddenByPhase ==
    ~panicked
    => /\ \A phase \in {state, DealerTurn} :
            LET v == view([Self EXCEPT !.state = phase])
            IN  /\ v.phase = phase
                /\ IF phase.tag \in {"Dealing", "PlayerTurn"}
                   THEN HoleHidden(v, table.dealer_hand)
                   ELSE AllShown(v, table.dealer_hand)
       /\ Len(view(Self).player_hands) = Len(table.player_hands)
       /\ \A j \in 1..Len(table.player_hands) :
            LET h == table.player_hands[j]
                pv == view(Self).player_hands[j]
            IN  /\ Len(pv.cards) = Len(h.hand)
                /\ \A k \in 1..Len(h.hand) : pv.cards[k] = FaceUp(h.hand[k])

\* a round ended by the dealer's natural: the hole card is on show
C21_Witness ==
    /\ state = RoundOver
    /\ ~table.player_hands[1].is_complete
    /\ is_blackjack(table.dealer_hand)
    /\ view(Self).dealer_cards[1] = FaceUp(table.dealer_hand[1])
    /\ view(Self).dealer_visible_score = Some(21)

\* every card another hole card could be
AnyCard == AllCards \cup {FullShoe[k] : k \in 1..Len(FullShoe)}

\* C22: the view does not leak the hole card while play is open: two
\* PlayerTurn states that differ only in the dealer's first card have the
\* same view (cards, scores, legal actions, bank, result).
C22_ViewHidesHoleCard ==
    (~panicked /\ state.tag = "PlayerTurn")
    => \A c \in AnyCard :
          view([Self EXCEPT !.table.dealer_hand[1] = c]) = view(Self)

\* the player is to act against a hidden Ace under a shown ten-card
C22_Witness ==
    /\ state.tag = "PlayerTurn"
    /\ table.dealer_hand[1].value = ACE
    /\ hand_score(table.dealer_hand) # hand_score(Tail(table.dealer_hand))
    /\ view(Self).dealer_visible_score = Some(6)

\* the elements of a sequence
Range(seq) == {seq[k] : k \in 1..Len(seq)}

\* C23: the legal actions depend on the current state only: none outside
\* PlayerTurn; in PlayerTurn(i) always Hit and Stay, Double exactly when hand
\* i has two cards, is not complete and the bank covers its bet, Split
\* exactly when hand i is a two-card pair of equal rank, no split was made
\* this round and the bank covers its bet; can_start_new_round is true
\* exactly in RoundOver.
C23_LegalActions ==
    ~panicked
    => LET acts == Range(available_actions(Self))
       IN  /\ acts \subseteq PlayerActions
           /\ available_actions([Self EXCEPT !.state = DealerTurn]) = <<>>
           /\ state.tag # "PlayerTurn" => acts = {}
           /\ state.tag = "PlayerTurn" =>
                LET h == table.player_hands[state.hand_index + 1]
                IN  /\ {"Hit", "Stay"} \subseteq acts
                    /\ "Double" \in acts
                         <=> /\ Len(h.hand) = 2
                             /\ ~h.is_complete
                             /\ bank >= h.bet
                    /\ "Split" \in acts
                         <=> /\ Len(h.hand) = 2
                             /\ h.hand[1].value = h.hand[2].value
                             /\ Len(table.player_hands) = 1
                             /\ bank >= h.bet
           /\ view(Self).available_actions = available_actions(Self)
           /\ view(Self).can_start_new_round <=> state = RoundOver

\* a pair on the table that the bank cannot cover: only Hit and Stay are legal
C23_Witness ==
    /\ state.tag = "PlayerTurn"
    /\ Len(table.player_hands) = 1
    /\ Len(table.player_hands[1].hand) = 2
    /\ table.player_hands[1].hand[1].value = table.player_hands[1].hand[2].value
    /\ bank < table.player_hands[1].bet
    /\ Range(available_actions(Self)) = {"Hit", "Stay"}

\* C25: a player hand is immutable once complete: after is_complete is set (by
\* Stay, a bust or Double) its cards, its bet and its flag do not change until
\* the next start_round recreates the table.
C25_CompleteHandIsFrozen ==
    [][(~panicked' /\ rounds' = rounds)
       => \A j \in 1..Len(table.player_hands) :
             table.player_hands[j].is_complete
             => /\ j <= Len(table'.player_hands)
                /\ table'.player_hands[j] = table.player_hands[j]]_vars

\* hand 0 was completed and hand 1 has been played on since
C25_Witness ==
    /\ state = PlayerTurn(1)
    /\ Len(table.player_hands) = 2
    /\ table.player_hands[1].is_complete
    /\ Len(table.player_hands[2].hand) >= 4

\* the RoundResolved events in a list of events
RECURSIVE ResolvedCount(_)
ResolvedCount(events) ==
    IF events = <<>> THEN 0
    ELSE (IF Head(events).type = "RoundResolved" THEN 1 ELSE 0)
         + ResolvedCount(Tail(events))

\* C26: settlement runs exactly once per round: a call that takes the round
\* through the dealer's turn applies the per-hand deposits once and returns
\* exactly one RoundResolved event, no other call to apply returns one, and
\* once the phase is RoundOver the bank and the result change only through an
\* accepted request_new_round.
C26_SettlesOncePerRound ==
    /\ [](~panicked
          => \A a \in PlayerActions : \A g \in apply(Self, a) :
                ~g.panicked
                => IF state.tag = "PlayerTurn" /\ g.state = RoundOver
                   THEN /\ ResolvedCount(g.events) = 1
                        /\ g.bank = (bank - (TotalBet(g.table.player_hands)
                                             - TotalBet(table.player_hands)))
                                    + TotalCredit(g.table.player_hands,
                                                  g.table.dealer_hand)
                   ELSE ResolvedCount(g.events) = 0)
    /\ [][state = RoundOver
          => \/ bank' = bank /\ result' = result
             \/ rounds' = rounds + 1]_vars

\* the first round of a game, split and settled with something to pay out
C26_Witness ==
    /\ RoundSettled
    /\ rounds = 1
    /\ Len(table.player_hands) = 2
    /\ TotalCredit(table.player_hands, table.dealer_hand) > 0
    /\ bank = InitialBank - TotalBet(table.player_hands)
              + TotalCredit(table.player_hands, table.dealer_hand)

\* C27: the round result is Pending exactly while the round is open: in
\* RoundOver it is one of PlayerWin, DealerWin, Push (also for the mixed
\* outcomes of split hands), and in PlayerTurn it is Pending.
C27_ResultPendingUntilRoundOver ==
    /\ state = RoundOver => result \in {"PlayerWin", "DealerWin", "Push"}
    /\ state.tag = "PlayerTurn" => result = "Pending"
    /\ state = Dealing => result = "Pending"

\* split hands settled one won, one lost
C27_Witness ==
    /\ RoundSettled
    /\ Len(table.player_hands) = 2
    /\ {HandOutcome(table.player_hands[i], table.dealer_hand) : i \in 1..2}
         = {"PlayerWin", "DealerWin"}
    /\ result = "Push"

\* every hand of the table is complete
AllComplete(t) ==
    \A j \in 1..Len(t.player_hands) : t.player_hands[j].is_complete

\* C28: the dealer acts only after every player hand is complete and the
\* hands are played in index order: in every PlayerTurn state the dealer holds
\* exactly two cards; play enters the dealer's turn only with every player
\* hand complete; after a split, hand 1 receives no Hit, Stay or Double before
\* hand 0 is complete.
C28_DealerAfterPlayerInOrder ==
    /\ [](~panicked
          => /\ state.tag = "PlayerTurn"
                => /\ Len(table.dealer_hand) = 2
                   /\ state.hand_index < Len(table.player_hands)
                   /\ ~table.player_hands[state.hand_index + 1].is_complete
                   /\ \A j \in 1..state.hand_index :
                         table.player_hands[j].is_complete
                   /\ \A a \in PlayerActions :
                      \A r \in handle_player_turn(Self, state.hand_index, a) :
                         (~r.g.panicked /\ r.g.state = DealerTurn)
                         => AllComplete(r.g.table)
             /\ Len(table.dealer_hand) > 2 => AllComplete(table))
    /\ [][(/\ ~panicked'
           /\ rounds' = rounds
           /\ Len(table.player_hands) = 2
           /\ table'.player_hands[2] # table.player_hands[2])
          => /\ table.player_hands[1].is_complete
             /\ state = PlayerTurn(1)]_vars

\* hand 0 was hit before it was closed, hand 1 is being played, the dealer
\* still holds the two dealt cards
C28_Witness ==
    /\ state = PlayerTurn(1)
    /\ Len(table.player_hands[1].hand) = 3
    /\ table.player_hands[1].is_complete
    /\ Len(table.player_hands[2].hand) = 3
    /\ Len(table.dealer_hand) = 2

\* a card counted low: the Ace 1, a face card 10, a numeric its face value
LowValue(card) ==
    IF card.value = ACE THEN 1
    ELSE IF card.value >= TEN THEN 10
    ELSE card.value

RECURSIVE LowTotal(_)
LowTotal(hand) ==
    IF hand = <<>> THEN 0 ELSE LowValue(Head(hand)) + LowTotal(Tail(hand))

\* every total of the hand with each Ace counted as 1 or as 11
Totals(hand) ==
    {LowTotal(hand) + 10 * j
       : j \in 0..Cardinality({k \in 1..Len(hand) : hand[k].value = ACE})}

\* the largest element of a non-empty set of numbers
Largest(S) == CHOOSE t \in S : \A u \in S : u <= t

\* C29: hand_score returns the best non-busting total: the largest total of
\* at most 21 obtainable by counting each Ace as 1 or as 11 (face cards 10,
\* numerics their face value); when there is none it returns the total with
\* every Ace as 1, and is_bust is true then and only then.
C29_BestTotal ==
    LET good == {t \in Totals(scored.hand) : t <= 21}
    IN  /\ scored.score = IF good # {} THEN Largest(good)
                          ELSE LowTotal(scored.hand)
        /\ scored.is_bust <=> good = {}

\* two Aces and a nine: one Ace counts 11, the other 1
C29_Witness ==
    /\ Len(scored.hand) = 3
    /\ {scored.hand[k].value : k \in 1..3} = {ACE, 9}
    /\ Cardinality({k \in 1..3 : scored.hand[k].value = ACE}) = 2
    /\ scored.score = 21
    /\ ~scored.is_bust

\* no StateChanged event in the list names the same phase twice
NoSelfTransition(events) ==
    \A k \in 1..Len(events) :
        events[k].type = "StateChanged" => events[k].from # events[k].to

\* C30: events are returned in causal order: an applied action that completes
\* the last incomplete hand returns ActionApplied, StateChanged PlayerTurn(i)
\* -> DealerTurn, RoundResolved, StateChanged DealerTurn -> RoundOver, in that
\* order, and no StateChanged event of any operation has from = to.
C30_EventsInCausalOrder ==
    ~panicked
    => /\ \A a \in PlayerActions : \A g \in apply(Self, a) :
            ~g.panicked
            => /\ NoSelfTransition(g.events)
               /\ (state.tag = "PlayerTurn" /\ g.state = RoundOver)
                  => g.events = <<ActionApplied(a),
                                  StateChanged(state, DealerTurn),
                                  RoundResolved(g.result),
                                  StateChanged(DealerTurn, RoundOver)>>
       /\ \A g \in request_new_round(Self) : NoSelfTransition(g.events)
       /\ rounds = 0 => \A g \in start_round(Self) : NoSelfTransition(g.events)

\* the player stood on the two dealt cards and lost to the dealer's two
C30_Witness ==
    /\ RoundSettled
    /\ Len(table.player_hands) = 1
    /\ Len(table.player_hands[1].hand) = 2
    /\ table.player_hands[1].bet = DefaultBet
    /\ Len(table.dealer_hand) = 2
    /\ result = "DealerWin"

\* C31: a shoe built from an explicit card list deals in the order of the
\* list: the k-th draw returns the k-th card, so the first deal from the list
\* [c1, c2, c3, c4, ...] gives the player c1, c2 and the dealer c3, c4 and
\* leaves the rest of the list in the shoe.
C31_RiggedDealsInListOrder ==
    [][(/\ StartReturned
        /\ rounds = 0
        /\ shoe.deck # <<>>
        /\ table'.dealer_hand # <<>>)
       => /\ table'.player_hands[1].hand = <<shoe.deck[1], shoe.deck[2]>>
          /\ table'.dealer_hand = <<shoe.deck[3], shoe.deck[4]>>
          /\ shoe'.deck = SubSeq(shoe.deck, 5, Len(shoe.deck))]_vars

\* C32: money is conserved while the player decides: in every PlayerTurn state
\* the bank plus the bets of all player hands equals the bank just before the
\* round's start_round (it does so when the round opens and every step that
\* stays in PlayerTurn keeps the sum); the balance is never below 0.
C32_MoneyConserved ==
    /\ [](bank >= 0)
    /\ [][(StartReturned /\ state'.tag = "PlayerTurn")
          => bank' + TotalBet(table'.player_hands) = bank]_vars
    /\ [][(state.tag = "PlayerTurn" /\ state'.tag = "PlayerTurn" /\ ~panicked')
          => bank' + TotalBet(table'.player_hands)
               = bank + TotalBet(table.player_hands)]_vars

\* first round from 1000: split, hand 0 doubled, the player is on hand 1
C32_Witness ==
    /\ state = PlayerTurn(1)
    /\ rounds = 1
    /\ table.player_hands[1].bet = 2 * DefaultBet
    /\ table.player_hands[2].bet = DefaultBet
    /\ bank + TotalBet(table.player_hands) = InitialBank

\* the cards left in a shoe
ShoeCards(s) == s.shuffled \cup Range(s.deck)

\* the number of cards in the shoe and on the table
CardCount(s, t) == remaining(s) + TotalLen(t.player_hands) + Len(t.dealer_hand)

\* C33: cards are conserved within a round: the cards left in the shoe plus
\* the cards of all player hands and of the dealer's hand number the shoe's
\* size when the round's deal began (they do after start_round, and no later
\* step of the round changes the number), no card is in two places, and Split
\* keeps the two original cards, one as the first card of each hand.
C33_CardsConserved ==
    /\ [](~panicked
          => /\ Cardinality(ShoeCards(shoe) \cup CardsOn(table))
                  = CardCount(shoe, table)
             /\ Cardinality(ShoeCards(shoe)) = remaining(shoe))
    /\ [][StartReturned
          => CardCount(shoe', table')
               = IF rounds > 0 /\ needs_shuffle(Self)
                 THEN remaining(new_shuffled) ELSE remaining(shoe)]_vars
    /\ [][(rounds' = rounds /\ ~panicked')
          => /\ CardCount(shoe', table') = CardCount(shoe, table)
             /\ ShoeCards(shoe') \cup CardsOn(table')
                  = ShoeCards(shoe) \cup CardsOn(table)
             /\ (Len(table.player_hands) = 1 /\ Len(table'.player_hands) = 2)
                => /\ table'.player_hands[1].hand[1] = table.player_hands[1].hand[1]
                   /\ table'.player_hands[2].hand[1] = table.player_hands[1].hand[2]
                   /\ TotalLen(table'.player_hands) = 4]_vars

\* a first round from the shuffled deck: split, and the dealer drew a card
C33_Witness ==
    /\ state = RoundOver
    /\ rounds = 1
    /\ Len(table.player_hands) = 2
    /\ Len(table.dealer_hand) = 3
    /\ CardCount(shoe, table) = Cardinality(AllCards)
    /\ remaining(shoe) < Cardinality(AllCards) - 6

\* C34: the active hand index is always valid: in every PlayerTurn(i) state i
\* is less than the number of player hands, hand i is incomplete and not
\* bust, and every hand with an index below i is complete.
C34_ActiveHandValid ==
    state.tag = "PlayerTurn"
    => /\ state.hand_index \in 0..(Len(table.player_hands) - 1)
       /\ LET h == table.player_hands[state.hand_index + 1]
          IN  /\ ~h.is_complete
              /\ ~is_bust(h.hand)
              /\ hand_score(h.hand) <= 21
       /\ \A j \in 0..(state.hand_index - 1) :
             table.player_hands[j + 1].is_complete
       /\ current_hand_idx(Self) = state.hand_index

\* hand 0 went bust and is closed; the player is on hand 1, which stands at 21
C34_Witness ==
    /\ state = PlayerTurn(1)
    /\ is_bust(table.player_hands[1].hand)
    /\ hand_score(table.player_hands[2].hand) = 21

\* the fields of the game, without the events a call returns
Fields(g) == <<g.state, g.shoe, g.table, g.bank, g.result>>

\* C35: the legal actions and the engine agree: in every reachable state and
\* for each of Hit, Stay, Double and Split, apply(a) is applied (it returns
\* ActionApplied(a) first and changes the state) exactly when a is among
\* view().available_actions before the call; otherwise it is ignored and
\* changes nothing.
C35_LegalActionsAgreeWithEngine ==
    ~panicked
    => \A a \in PlayerActions : \A g \in apply(Self, a) :
          IF a \in Range(view(Self).available_actions)
          THEN /\ ~g.panicked
               /\ g.events # <<>>
               /\ g.events[1] = ActionApplied(a)
               /\ Fields(g) # Fields(Self)
          ELSE g = [Self EXCEPT !.events = <<ActionIgnored(a, state)>>]

\* start_round has returned with the phase left at Dealing
StartFailed == rounds > 0 /\ state = Dealing /\ ~panicked

\* C36: a failed round-start withdrawal is absorbing: once start_round has
\* returned with the phase left at Dealing, every apply is ignored and every
\* request_new_round is ignored, so no step deals a card or changes the bank
\* (or anything else) again.
C36_FailedStartIsAbsorbing ==
    /\ [](StartFailed
          => /\ \A a \in PlayerActions : Ignored(a)
             /\ request_new_round(Self)
                  = {[Self EXCEPT !.events = <<RoundStartIgnored(Dealing)>>]})
    /\ [][StartFailed
          => /\ StartFailed'
             /\ UNCHANGED <<state, shoe, table, bank, result, rounds>>]_vars

\* the first start_round of a game with 5 in the bank was refused; the 52
\* cards are still in the shoe
C36_Witness ==
    /\ StartFailed
    /\ StartRefused
    /\ rounds = 1
    /\ remaining(shoe) = Len(FullShoe)

\* a hand of two cards that scores 21
TwoCard21(h) == Len(h.hand) = 2 /\ hand_score(h.hand) = 21

\* C37: naturals are evaluated only on the initial deal: a two-card 21 on
\* either hand after a Split does not end the round and is not paid 3:2; it is
\* settled like any other hand, and no settlement deposits more than twice a
\* hand's bet.
C37_NoNaturalAfterSplit ==
    /\ [][(/\ rounds' = rounds
           /\ ~panicked'
           /\ Len(table.player_hands) = 1
           /\ Len(table'.player_hands) = 2)
          => /\ state' = PlayerTurn(0)
             /\ result' = "Pending"
             /\ bank' = bank - table.player_hands[1].bet]_vars
    /\ [][(state.tag = "PlayerTurn" /\ state'.tag = "PlayerTurn" /\ ~panicked')
          => bank' <= bank]_vars
    /\ [][(Settled /\ \E j \in 1..Len(table'.player_hands) :
                         TwoCard21(table'.player_hands[j]))
          => LET staked == bank - (TotalBet(table'.player_hands)
                                   - TotalBet(table.player_hands))
             IN  /\ bank' = staked + TotalCredit(table'.player_hands,
                                                 table'.dealer_hand)
                 /\ bank' <= staked + 2 * TotalBet(table'.player_hands)]_vars

\* a split made a two-card 21 that beat the dealer and was paid twice its bet
C37_Witness ==
    /\ RoundSettled
    /\ rounds = 1
    /\ Len(table.player_hands) = 2
    /\ \E j \in 1..2 :
         /\ TwoCard21(table.player_hands[j])
         /\ HandOutcome(table.player_hands[j], table.dealer_hand) = "PlayerWin"
    /\ bank = InitialBank - TotalBet(table.player_hands)
              + TotalCredit(table.player_hands, table.dealer_hand)

\* C38: every round terminates: every call returns, and from any PlayerTurn
\* state the player's applied actions lead to RoundOver (each hand takes only
\* finitely many Hits before it busts, and there is at most one Split).
C38_EveryRoundTerminates ==
    (state.tag = "PlayerTurn" /\ FirstShoe) ~> (state = RoundOver)

\* every player hand of the table is bust
AllBust(t) == \A j \in 1..Len(t.player_hands) : is_bust(t.player_hands[j].hand)

\* C39: the dealer plays out the hand even when every player hand is bust:
\* after the last hand busts the dealer still draws from the shoe until the
\* dealer's score is 17 or more, and only then is the round settled, as
\* DealerWin and without a deposit; the shoe shrinks by the dealer's cards
\* although the outcome was decided.
C39_DealerPlaysOutAfterBusts ==
    [][(Settled /\ AllBust(table'))
       => /\ result' = "DealerWin"
          /\ bank' = bank - (TotalBet(table'.player_hands)
                             - TotalBet(table.player_hands))
          /\ hand_score(table'.dealer_hand) >= 17
          /\ hand_score(table.dealer_hand) < 17
             => Len(table'.dealer_hand) > Len(table.dealer_hand)
          /\ remaining(shoe) - remaining(shoe')
               = (TotalLen(table'.player_hands) - TotalLen(table.player_hands))
                 + (Len(table'.dealer_hand) - Len(table.dealer_hand))]_vars

\* the only hand went bust and the dealer, dealt less than 17, drew after it
C39_Witness ==
    /\ RoundSettled
    /\ Len(table.player_hands) = 1
    /\ AllBust(table)
    /\ Len(table.dealer_hand) >= 3
    /\ hand_score(SubSeq(table.dealer_hand, 1, 2)) < 17
    /\ result = "DealerWin"

====
